---- MODULE Spec2Model ----
(***************************************************************************)
(* A model of the control-plane resource server: the type registry        *)
(* (server/registry.go), the storage codec and the CRUD / lifecycle        *)
(* operations with their atomic-update protocol (server/resources.go),     *)
(* over a relational store with one table per registered type.            *)
(*                                                                         *)
(* Every handler that opens a database transaction is split at its        *)
(* database round trips: a Start step (BeginTx, the SELECT of getResource,*)
(* the updater, the conflict check) and a Finish step (the INSERT/UPDATE  *)
(* and the Commit).  The row lock a write takes is held until the commit, *)
(* so write and commit are one step.  The handlers pass sql.TxOptions{},  *)
(* i.e. the isolation level is whatever the database defaults to; the     *)
(* model draws it once, at Init.                                           *)
(***************************************************************************)
EXTENDS Integers, FiniteSets, Sequences, TLC

VARIABLES
    resources,   \* resourceServer.resources: type name -> registered descriptor
    tables,      \* the database: table name -> set of rows
    isolation,   \* the database's default transaction isolation level
    now,         \* the wall clock read by timestamppb.Now()
    nextUid,     \* the next value uuid.New() hands out
    pc,          \* per worker: "idle", or "pending" between BeginTx and Commit
    tx,          \* per worker: the open transaction of the running handler
    res,         \* per worker: the call that finished last (none while one runs)
    staleTags,   \* per (type, name): etags the row held before a committed Update
    history,     \* per (type, name): what the committed writes made of the resource
    regRes,      \* the last CreateResourceDescriptor call and what it returned
    registering, \* per registering goroutine: how far its CreateResourceDescriptor got
    crashed      \* the Go runtime has stopped the process (fatal error)

vars == <<resources, tables, isolation, now, nextUid, pc, tx, res, staleTags, history,
         regRes, registering, crashed>>

----------------------------------------------------------------------------
(* Bounds of the model. *)

MaxTime == 2
MaxLongTime == 3
MaxUid == 2

----------------------------------------------------------------------------
(* Message types, descriptors and values. *)

Account == "features.Account"
Doc == "features.Doc"
Plain == "features.Plain"
Billing == "billing.Account"

\* The message types linked into the binary (protoregistry.GlobalTypes).
MessageTypes == {Account, Doc, Plain}

\* The same with the second package linked in.
AllMessageTypes == MessageTypes \cup {Billing}

Names == {"accounts/a", "accounts/b"}
\* CreateResourceRequest.resource_id: unset, or the final component of a name.
ResourceIds == {"", "b"}
Parents == {"", "orgs/o"}
DisplayNames == {"Joe", "Joe2"}
LabelVals == {"", "city"}
Etags == {"", "v1"}

NullTime == 0
StartTime == NullTime + 1
NoUid == 0
ForgedUid == 0 - 1

FieldNames ==
    {"name", "display_name", "labels", "etag", "uid",
     "create_time", "update_time", "delete_time"}

\* features/resources.proto: Account carries the google.api.resource
\* annotation and tags name, uid and the three timestamps OUTPUT_ONLY.
\* Doc is the same resource with an additional plain `etag` field; Plain is
\* a message without the resource annotation; Billing is a resource of
\* another package whose annotation has the singular of Account.
MessageDescriptor(t) ==
    [fullName    |-> t,
     hasResource |-> t # Plain,
     singular    |-> IF t \in {Account, Billing} THEN "account"
                     ELSE IF t = Doc THEN "doc" ELSE "",
     fields      |-> IF t = Doc THEN FieldNames ELSE FieldNames \ {"etag"},
     outputOnly  |-> {"name", "uid", "create_time", "update_time", "delete_time"}]

NoDescriptor == [fullName |-> "", hasResource |-> FALSE, singular |-> "",
                 fields |-> {}, outputOnly |-> {}]

ZeroValue(f) ==
    IF f \in {"create_time", "update_time", "delete_time"} THEN NullTime
    ELSE IF f = "uid" THEN NoUid
    ELSE ""

\* A freshly allocated message: every field at its proto3 zero value.
NewMessage == [f \in FieldNames |-> ZeroValue(f)]

\* What a caller puts into the fields the server is to set: nothing, or
\* values of its own.
CallerOutputOnly ==
    {[uid |-> NoUid, delete_time |-> NullTime],
     [uid |-> ForgedUid, delete_time |-> StartTime]}

\* The resource values a caller can put into a request for type t, drawn
\* from the universe U of a specification.
CallerMessages(t, U) ==
    { [name |-> n, display_name |-> p[1], labels |-> p[2], etag |-> e, uid |-> o.uid,
       create_time |-> NullTime, update_time |-> NullTime, delete_time |-> o.delete_time] :
        n \in U.names, p \in U.payloads,
        e \in (IF "etag" \in MessageDescriptor(t).fields THEN U.etags ELSE {""}),
        o \in U.outputOnly }

\* A google.protobuf.Any: the type URL and the packed value.  `ok` is FALSE
\* when the packed bytes do not decode as the named message (UnmarshalNew
\* fails).
AnyNew(t, m) == [typeUrl |-> t, ok |-> TRUE, msg |-> m]
BadAny(t) == [typeUrl |-> t, ok |-> FALSE, msg |-> NewMessage]
NoAny == [typeUrl |-> "", ok |-> FALSE, msg |-> NewMessage]

----------------------------------------------------------------------------
(* The storage codec. *)

getResourceTableName(d) == d.singular \o "_resource"

\* time.Time.Format(time.RFC3339Nano) and time.Parse(time.RFC3339Nano, s).
FormatRFC3339Nano(t) == <<"RFC3339Nano", t>>
ParseRFC3339Nano(s) == s[2]

\* The timestamp columns are declared TIMESTAMP: the database keeps
\* microseconds, while the clock of timestamppb.Now() counts finer ticks.
\* A value written to such a column is rounded to the nearest microsecond.
TicksPerMicro == 2

RoundToMicro(t) == ((t + (TicksPerMicro \div 2)) \div TicksPerMicro) * TicksPerMicro

\* What a TIMESTAMP column holds after the string s was written to it, as
\* the driver hands it back on a read.
TimestampColumn(s) == FormatRFC3339Nano(RoundToMicro(ParseRFC3339Nano(s)))

\* sql.NullString
NullString == [Valid |-> FALSE, String |-> <<>>]
ValidString(s) == [Valid |-> TRUE, String |-> s]

\* A payload that keeps every field of the resource.
keepOutputOnlyFields(d, m) == m

clearOutputOnlyFields(d, m) ==
    [f \in FieldNames |-> IF f \in d.outputOnly THEN ZeroValue(f) ELSE m[f]]

\* protojson.Marshal(anypb.New(clearOutputOnlyFields(resource)))
MarshalData(d, m) == AnyNew(d.fullName, clearOutputOnlyFields(d, m))

\* The delete_time column an UPDATE writes for the updated resource.
getResourceDeletion(m) ==
    IF m.delete_time # NullTime
    THEN ValidString(FormatRFC3339Nano(m.delete_time))
    ELSE NullString

NoRow == [uid |-> NoUid, name |-> "", parent |-> "", create_time |-> <<>>,
          update_time |-> <<>>, delete_time |-> NullString, data |-> NoAny]

\* scanResource: the payload is unmarshalled, then uid, name and the
\* timestamps are set from the columns; delete_time only when it is not NULL.
scanResource(row) ==
    [row.data.msg EXCEPT
        !.uid = row.uid,
        !.name = row.name,
        !.create_time = ParseRFC3339Nano(row.create_time),
        !.update_time = ParseRFC3339Nano(row.update_time),
        !.delete_time = IF row.delete_time.Valid
                        THEN ParseRFC3339Nano(row.delete_time.String)
                        ELSE @]

----------------------------------------------------------------------------
(* The registry. *)

\* r.resources[resourceType] != nil
IsRegistered(reg, t) == t \in DOMAIN reg

GetResourceDescriptor(reg, t) == IF IsRegistered(reg, t) THEN reg[t] ELSE NoDescriptor

----------------------------------------------------------------------------
(* Responses.  A handler returns a gRPC status code and, on OK, a value.   *)
(* An error that is not a gRPC status (an unmarshal error, a database      *)
(* error) reaches the client as code Unknown.                              *)

Codes == {"OK", "NotFound", "AlreadyExists", "Aborted", "Unimplemented", "Unknown",
          "Unavailable"}

\* SELECT ... FROM <table> WHERE name = $1
SelectByName(tbls, tbl, n) ==
    IF tbl \in DOMAIN tbls THEN {r \in tbls[tbl] : r.name = n} ELSE {}

\* A lookup that never sees a stored row.
getResourceBlind(reg, tbls, t, n) ==
    IF ~IsRegistered(reg, t)
    THEN [code |-> "Unimplemented", row |-> NoRow, value |-> NewMessage]
    ELSE [code |-> "NotFound", row |-> NoRow, value |-> NewMessage]

\* A lookup that hands sql.ErrNoRows on as it is instead of NotFound.
getResourceRawError(reg, tbls, t, n) ==
    IF ~IsRegistered(reg, t)
    THEN [code |-> "Unimplemented", row |-> NoRow, value |-> NewMessage]
    ELSE LET rows == SelectByName(tbls, getResourceTableName(reg[t]), n) IN
         IF rows = {}
         THEN [code |-> "Unknown", row |-> NoRow, value |-> NewMessage]
         ELSE LET r == CHOOSE r \in rows : TRUE IN
              [code |-> "OK", row |-> r, value |-> scanResource(r)]

\* A lookup that does not see soft-deleted rows.
getResourceActive(reg, tbls, t, n) ==
    IF ~IsRegistered(reg, t)
    THEN [code |-> "Unimplemented", row |-> NoRow, value |-> NewMessage]
    ELSE LET rows == {r \in SelectByName(tbls, getResourceTableName(reg[t]), n) :
                         ~r.delete_time.Valid} IN
         IF rows = {}
         THEN [code |-> "NotFound", row |-> NoRow, value |-> NewMessage]
         ELSE LET r == CHOOSE r \in rows : TRUE IN
              [code |-> "OK", row |-> r, value |-> scanResource(r)]

\* getResource: Unimplemented for an unregistered type, NotFound when the
\* query returns no row, else the scanned first row.
getResource(reg, tbls, t, n) ==
    IF ~IsRegistered(reg, t)
    THEN [code |-> "Unimplemented", row |-> NoRow, value |-> NewMessage]
    ELSE LET rows == SelectByName(tbls, getResourceTableName(reg[t]), n) IN
         IF rows = {}
         THEN [code |-> "NotFound", row |-> NoRow, value |-> NewMessage]
         ELSE LET r == CHOOSE r \in rows : TRUE IN
              [code |-> "OK", row |-> r, value |-> scanResource(r)]

----------------------------------------------------------------------------
(* Requests, responses and transactions. *)

Workers == {"w1", "w2"}

IsolationLevels == {"ReadCommitted", "Serializable"}

Request(t, n, parent, resource, mask, pageSize) ==
    [typ |-> t, name |-> n, parent |-> parent, resource |-> resource,
     mask |-> mask, pageSize |-> pageSize, resourceId |-> ""]

NoRequest == Request("", "", "", NoAny, {}, 0)

\* The fields the request message of each RPC defines (resources.proto).
RequestFields(op) ==
    IF op = "Create" THEN {"parent", "resource", "resource_id"}
    ELSE IF op = "Update" THEN {"resource", "update_mask"}
    ELSE IF op = "List"
    THEN {"parent", "resource_type", "page_size", "page_token", "filter"}
    ELSE IF op \in {"Get", "Delete", "Undelete", "Purge"} THEN {"name", "resource_type"}
    ELSE {}

\* An extraction that moves on to the next field when a field is empty.
authResourceNameByValue(op, req) ==
    IF "name" \in RequestFields(op) /\ req.name # ""
    THEN [ok |-> TRUE, name |-> req.name]
    ELSE IF "parent" \in RequestFields(op) /\ req.parent # ""
    THEN [ok |-> TRUE, name |-> req.parent]
    ELSE IF "resource" \in RequestFields(op)
    THEN [ok |-> req.resource.ok, name |-> req.resource.msg.name]
    ELSE [ok |-> TRUE, name |-> ""]

\* authUnaryInterceptor: the resource name the call is authorized against.
\* The branch is chosen by the fields the request message defines: the value
\* of `name`, else the value of `parent`, else the name of the resource
\* unmarshalled from `resource` (an error when it does not unmarshal).
authResourceName(op, req) ==
    IF "name" \in RequestFields(op)
    THEN [ok |-> TRUE, name |-> req.name]
    ELSE IF "parent" \in RequestFields(op)
    THEN [ok |-> TRUE, name |-> req.parent]
    ELSE IF "resource" \in RequestFields(op)
    THEN [ok |-> req.resource.ok, name |-> req.resource.msg.name]
    ELSE [ok |-> TRUE, name |-> ""]

\* What a finished call left behind: the response (code, value, listed
\* values) and, for the checks, the request (of a call that failed with
\* another code than Aborted only its type and name), the resource name the interceptor extracted from it, whether
\* the type resolved, whether the call left its transaction open, and the
\* writes other calls committed to its row between its read and its write.
Response(op, req, code, value, registered, txOpen, stale, overlap) ==
    [op |-> op,
     req |-> IF code \in {"OK", "Aborted"} \/ op = "List" THEN req
             ELSE Request(req.typ, req.name, "", NoAny, {}, 0),
     code |-> code, value |-> value,
     registered |-> registered, txOpen |-> txOpen, stale |-> stale,
     overlap |-> overlap, listed |-> {}, nextPageToken |-> "",
     target |-> authResourceName(op, req).name]

NoResponse == Response("None", NoRequest, "OK", NewMessage, FALSE, FALSE, FALSE, {})

\* What a handler holds while it waits for the database: the statement to
\* execute (kind, table, name, row), the value it works on or returns, and
\* the time the clock showed when its read returned.
Transaction(op, req, kind, tbl, n, row, ret, stale) ==
    [op |-> op, req |-> req, kind |-> kind, table |-> tbl, name |-> n,
     row |-> row, ret |-> ret, stale |-> stale, overlap |-> {}, at |-> NullTime]

NoTx == Transaction("None", NoRequest, "none", "", "", NoRow, NewMessage, FALSE)

\* The handler of worker w returns r.
Return(w, r) ==
    /\ res' = [res EXCEPT ![w] = r]
    /\ pc' = [pc EXCEPT ![w] = "idle"]

\* A committed write to (tbl, n) is seen by every other open transaction
\* that has read that row: the database remembers it in their read sets.
Invalidate(w, tbl, n, op) ==
    [q \in Workers |->
        IF q # w /\ pc[q] = "pending" /\ tx[q].table = tbl /\ tx[q].name = n
        THEN [tx[q] EXCEPT !.overlap = @ \cup {op}]
        ELSE IF q = w THEN NoTx ELSE tx[q]]

\* A transaction whose read was overwritten by a committed write cannot
\* commit under serializable isolation (SQLSTATE 40001); under read
\* committed the database lets it.
SerializationFailure(w) == isolation = "Serializable" /\ tx[w].overlap # {}

HasEtag(t) == "etag" \in MessageDescriptor(t).fields

\* What the committed writes made of a resource: the delete_time the last
\* Delete returned (none once an Update, Undelete or Purge committed after
\* it), whether an Undelete committed with no Delete or Purge after it,
\* whether a Purge committed with no Create after it, and whether the write
\* before the last one was a Delete.
NoHistory == [deleteTime |-> NullTime, undeleted |-> FALSE, purged |-> FALSE,
              afterDelete |-> FALSE]

\* The history of a resource after op, which returned the value ret,
\* committed a write to its row.
Committed(h, op, ret) ==
    LET g == [h EXCEPT !.afterDelete = h.deleteTime # NullTime] IN
    IF op = "Create" THEN [g EXCEPT !.purged = FALSE]
    ELSE IF op = "Delete" THEN [g EXCEPT !.deleteTime = ret.delete_time, !.undeleted = FALSE]
    ELSE IF op = "Undelete" THEN [g EXCEPT !.deleteTime = NullTime, !.undeleted = TRUE]
    ELSE IF op = "Update" THEN [g EXCEPT !.deleteTime = NullTime]
    ELSE [deleteTime |-> NullTime, undeleted |-> FALSE, purged |-> TRUE,
          afterDelete |-> FALSE]

----------------------------------------------------------------------------
(* CreateResource *)

\* The resources a caller can send in a request: a decodable value of a
\* linked message type, or bytes that do not decode.
CallerResources(U) ==
    UNION { {AnyNew(t, m) : m \in CallerMessages(t, U)} \cup
            (IF U.undecodable THEN {BadAny(t)} ELSE {}) : t \in U.types }

\* The resource CreateResource builds from the request: uid, create_time
\* and update_time are set by the server.  The clock is read once for
\* create_time (t1) and once more for update_time (t2).
StampCreated(m, uid, t1, t2) ==
    [m EXCEPT !.uid = uid, !.create_time = t1, !.update_time = t2]

\* The row the INSERT of CreateResource leaves in the table; delete_time
\* is not among the inserted columns.
InsertRow(d, created, parent) ==
    [uid |-> created.uid,
     name |-> created.name,
     parent |-> parent,
     create_time |-> TimestampColumn(FormatRFC3339Nano(created.create_time)),
     update_time |-> TimestampColumn(FormatRFC3339Nano(created.update_time)),
     delete_time |-> NullString,
     data |-> MarshalData(d, created)]

\* The Creates that have read the clock and wait for BeginTx.
BegunCreates == {q \in Workers : pc[q] = "began"}

\* CreateResource up to its second clock read: the registration check, the
\* unmarshal, the uid and the clock read for create_time.  The handler
\* goes on holding the type and the name of the resource and that time.
\* No more Creates are begun than there are uids left for them.
CreateResourceBegin(w, U) ==
    /\ pc[w] = "idle"
    /\ ~crashed
    /\ \E resource \in CallerResources(U), parent \in U.parents,
          resourceId \in U.resourceIds :
        LET t == resource.typeUrl
            req == [Request(t, resource.msg.name, parent, resource, {}, 0)
                       EXCEPT !.resourceId = resourceId]
            registered == IsRegistered(resources, t)
        IN
        IF ~registered
        THEN /\ Return(w, Response("Create", req, "Unimplemented", NewMessage,
                                   registered, FALSE, FALSE, {}))
             /\ UNCHANGED tx
        ELSE IF ~resource.ok
        THEN /\ Return(w, Response("Create", req, "Unknown", NewMessage,
                                   registered, FALSE, FALSE, {}))
             /\ UNCHANGED tx
        ELSE /\ nextUid + Cardinality(BegunCreates) <= MaxUid
             /\ pc' = [pc EXCEPT ![w] = "began"]
             /\ tx' = [tx EXCEPT ![w] =
                    [Transaction("Create", Request(t, resource.msg.name, "", NoAny, {}, 0),
                                 "begin", "", "", NoRow, NewMessage, FALSE)
                        EXCEPT !.at = now]]
             /\ res' = [res EXCEPT ![w] = NoResponse]
    /\ UNCHANGED <<resources, tables, isolation, now, nextUid, staleTags, history, regRes,
                   registering, crashed>>

\* CreateResource from its second clock read to its INSERT: the clock read
\* for update_time (t2), taken after the one for create_time and before
\* BeginTx returns, then the existence check on the table as it is now,
\* with the resource of the request stamped with the two times.
CreateResourceStart(w, U) ==
    /\ pc[w] = "began"
    /\ ~crashed
    /\ tx[w].kind = "begin"
    /\ \E resource \in CallerResources(U), parent \in U.parents,
          resourceId \in U.resourceIds :
        /\ resource.ok
        /\ resource.typeUrl = tx[w].req.typ
        /\ resource.msg.name = tx[w].req.name
        /\ LET t == resource.typeUrl
               req == [Request(t, resource.msg.name, parent, resource, {}, 0)
                          EXCEPT !.resourceId = resourceId]
               d == MessageDescriptor(t)
               existing == getResource(resources, tables, d.fullName, resource.msg.name)
           IN
           IF existing.code \notin {"OK", "NotFound"}
           THEN /\ Return(w, Response("Create", req, existing.code, NewMessage,
                                      TRUE, TRUE, FALSE, {}))
                /\ tx' = [tx EXCEPT ![w] = NoTx]
                /\ UNCHANGED nextUid
           ELSE IF existing.code = "OK"
           THEN /\ Return(w, Response("Create", req, "AlreadyExists", NewMessage,
                                      TRUE, TRUE, FALSE, {}))
                /\ tx' = [tx EXCEPT ![w] = NoTx]
                /\ UNCHANGED nextUid
           ELSE \E t2 \in tx[w].at..now :
                LET created == StampCreated(resource.msg, nextUid, tx[w].at, t2)
                    row == InsertRow(d, created, parent)
                IN
                /\ nextUid' = nextUid + 1
                /\ pc' = [pc EXCEPT ![w] = "pending"]
                /\ tx' = [tx EXCEPT ![w] =
                       [Transaction("Create", req, "insert", getResourceTableName(d),
                                    created.name, row, created, FALSE)
                           EXCEPT !.at = now]]
                /\ UNCHANGED res
    /\ UNCHANGED <<resources, tables, isolation, now, staleTags, history, regRes,
                   registering, crashed>>

\* A table without the unique constraint on name.
NoUniqueConstraint(tbls, tbl, n) == FALSE

\* CONSTRAINT resource_name_unique UNIQUE (name): an INSERT of a row named n
\* fails when the table holds a committed row of that name.
UniqueViolation(tbls, tbl, n) == SelectByName(tbls, tbl, n) # {}

\* The INSERT and the Commit of CreateResource.  The unique constraint on
\* name is checked by the database against the rows committed by now; its
\* error is returned as it is.
CreateResourceFinish(w) ==
    /\ pc[w] = "pending"
    /\ ~crashed
    /\ tx[w].kind = "insert"
    /\ LET t == tx[w] IN
       IF UniqueViolation(tables, t.table, t.name) \/ SerializationFailure(w)
       THEN /\ Return(w, Response("Create", t.req, "Unknown", NewMessage,
                                  TRUE, TRUE, FALSE, t.overlap))
            /\ tx' = [tx EXCEPT ![w] = NoTx]
            /\ UNCHANGED <<tables, staleTags, history>>
       ELSE /\ tables' = [tables EXCEPT ![t.table] = @ \cup {t.row}]
            /\ tx' = Invalidate(w, t.table, t.name, "Create")
            /\ staleTags' = [staleTags EXCEPT ![<<t.req.typ, t.name>>] = {}]
            /\ history' = [history EXCEPT ![<<t.req.typ, t.name>>] =
                               Committed(@, "Create", t.ret)]
            /\ Return(w, Response("Create", t.req, "OK", t.ret,
                                  TRUE, FALSE, FALSE, t.overlap))
    /\ UNCHANGED <<resources, isolation, now, nextUid, regRes, registering, crashed>>

----------------------------------------------------------------------------
(* GetResource *)

GetResource(w, U) ==
    /\ pc[w] = "idle"
    /\ ~crashed
    /\ \E t \in U.types, n \in U.names :
        LET req == Request(t, n, "", NoAny, {}, 0)
            got == getResource(resources, tables, t, n)
        IN Return(w, Response("Get", req, got.code, got.value,
                              IsRegistered(resources, t), FALSE, FALSE, {}))
    /\ UNCHANGED <<resources, tables, isolation, now, nextUid, tx, staleTags, history, regRes, registering, crashed>>

----------------------------------------------------------------------------
(* The atomic update protocol *)

\* A conflict check that lets every update pass.
updatesNeverConflict(t, existing, updated) == FALSE

\* updatesConflict: no conflict for a message without an etag field, else
\* the etags of the existing and of the updated message differ.
updatesConflict(t, existing, updated) ==
    IF ~HasEtag(t) THEN FALSE ELSE existing.etag # updated.etag

\* An updater returns the message to store, or an error.
Updated(m) == [ok |-> TRUE, msg |-> m]
UpdaterError == [ok |-> FALSE, msg |-> NewMessage]

\* An update_mask with a path that has an empty segment.
MalformedMask == {""}

\* fieldmask_utils.MaskFromProtoFieldMask(mask, CamelCase): an error for a
\* path with an empty segment, else the mask of the named fields.
MaskFromProtoFieldMask(mask) == [ok |-> "" \notin mask, mask |-> mask]

\* fieldmask_utils.StructToStruct(mask, src, dst): copies the fields the
\* mask names (all fields for an empty mask) from src into dst.
StructToStruct(mask, src, dst) ==
    [f \in FieldNames |-> IF mask = {} \/ f \in mask THEN src[f] ELSE dst[f]]

\* The updater of UpdateResource.  It returns the error of a malformed
\* mask or of a resource that does not unmarshal.  updatedResource and
\* existingResource are both unmarshalled from the request, two messages
\* of one type, which StructToStruct merges; the merge is written into
\* existingResource and updatedResource is returned.
UpdateUpdater(req, existing, t) ==
    LET mask == MaskFromProtoFieldMask(req.mask) IN
    IF ~mask.ok THEN UpdaterError
    ELSE IF ~req.resource.ok THEN UpdaterError
    ELSE LET updatedResource == req.resource.msg
             existingResource == req.resource.msg
             merged == StructToStruct(mask.mask, updatedResource, existingResource)
         IN Updated(updatedResource)

\* An updater that leaves the delete_time of a soft-deleted resource alone.
DeleteUpdaterOnce(existing, t) ==
    IF existing.delete_time # NullTime THEN Updated(existing)
    ELSE Updated([existing EXCEPT !.delete_time = t])

\* The updater of DeleteResource: sets delete_time to the time t the clock
\* shows when the updater runs.
DeleteUpdater(existing, t) == Updated([existing EXCEPT !.delete_time = t])

\* An updater that clears delete_time and with it the labels.
UndeleteUpdaterReset(existing, t) ==
    Updated([existing EXCEPT !.delete_time = NullTime, !.labels = ""])

\* An updater that soft-deletes a resource that is not soft-deleted.
UndeleteUpdaterToggle(existing, t) ==
    IF existing.delete_time = NullTime THEN Updated([existing EXCEPT !.delete_time = t])
    ELSE Updated([existing EXCEPT !.delete_time = NullTime])

\* The updater of UndeleteResource: clears delete_time.
UndeleteUpdater(existing, t) == Updated([existing EXCEPT !.delete_time = NullTime])

\* The updater function the handler of op hands to atomicUpdateResource,
\* run when the clock shows t.
updaterFunc(op, req, existing, t) ==
    IF op = "Update" THEN UpdateUpdater(req, existing, t)
    ELSE IF op = "Delete" THEN DeleteUpdater(existing, t)
    ELSE UndeleteUpdater(existing, t)

\* The type of the message an updater returns: UpdateResource returns the
\* message of the request, DeleteResource and UndeleteResource the message
\* read from the row.
UpdatedType(op, t, rowType) == IF op = "Update" THEN t ELSE rowType

\* protobuf-go panics when a message is read or written through a field
\* descriptor of another message type: updatesConflict reads the updated
\* message through the etag field of the existing one, and
\* atomicUpdateResource stamps update_time through the descriptor of the
\* registered type.
ForeignFieldDescriptor(op, t, rowType) ==
    \/ HasEtag(rowType) /\ UpdatedType(op, t, rowType) # rowType
    \/ UpdatedType(op, t, rowType) # t

\* The times the clock can have shown in the updater of a call of op whose
\* read of the row returned at time `at` and whose update_time stamp was
\* taken at t2: the updater of DeleteResource reads the clock between the
\* two, the other updaters do not read it.
UpdaterTimes(op, at, t2) == IF op = "Delete" THEN at..t2 ELSE {t2}

\* The UPDATE statement atomicUpdateResource prepares for the stamped
\* resource: update_time, the delete_time clause, the payload, the name.
UpdateStatement(d, stamped) ==
    [NoRow EXCEPT
        !.name = stamped.name,
        !.update_time = FormatRFC3339Nano(stamped.update_time),
        !.delete_time = getResourceDeletion(stamped),
        !.data = MarshalData(d, stamped)]

\* An UPDATE that leaves the data column alone.
ExecUpdateKeepData(rows, stmt) ==
    { IF r.name = stmt.name
      THEN [r EXCEPT !.update_time = TimestampColumn(stmt.update_time),
                     !.delete_time = IF stmt.delete_time.Valid
                                     THEN ValidString(TimestampColumn(stmt.delete_time.String))
                                     ELSE NullString]
      ELSE r : r \in rows }

\* An UPDATE that inserts the row when no row has the name.
ExecUpsert(rows, stmt) ==
    IF \E r \in rows : r.name = stmt.name
    THEN { IF r.name = stmt.name
           THEN [r EXCEPT !.update_time = TimestampColumn(stmt.update_time),
                          !.delete_time = IF stmt.delete_time.Valid
                                          THEN ValidString(TimestampColumn(stmt.delete_time.String))
                                          ELSE NullString,
                          !.data = stmt.data]
           ELSE r : r \in rows }
    ELSE rows \cup {[stmt EXCEPT !.create_time = TimestampColumn(stmt.update_time),
                                 !.update_time = TimestampColumn(stmt.update_time)]}

\* An UPDATE that also writes the uid column from the statement.
ExecUpdateWithUid(rows, stmt) ==
    { IF r.name = stmt.name
      THEN [r EXCEPT !.uid = stmt.uid,
                     !.update_time = TimestampColumn(stmt.update_time),
                     !.delete_time = IF stmt.delete_time.Valid
                                     THEN ValidString(TimestampColumn(stmt.delete_time.String))
                                     ELSE NullString,
                     !.data = stmt.data]
      ELSE r : r \in rows }

\* UPDATE <table> SET update_time = $1, delete_time = ..., data = $2 WHERE name = $3
ExecUpdate(rows, stmt) ==
    { IF r.name = stmt.name
      THEN [r EXCEPT !.update_time = TimestampColumn(stmt.update_time),
                     !.delete_time = IF stmt.delete_time.Valid
                                     THEN ValidString(TimestampColumn(stmt.delete_time.String))
                                     ELSE NullString,
                     !.data = stmt.data]
      ELSE r : r \in rows }

\* An atomic update that runs its UPDATE before the conflict check.
atomicUpdateStartWriteFirst(w, op, req, n, t) ==
    LET registered == IsRegistered(resources, t)
        existing == getResource(resources, tables, t, n)
        stale == op = "Update" /\ req.resource.msg.etag \in staleTags[<<t, n>>]
    IN
    IF ~registered
    THEN /\ Return(w, Response(op, req, "Unimplemented", NewMessage,
                               registered, FALSE, stale, {}))
         /\ UNCHANGED <<tx, tables, crashed>>
    ELSE IF existing.code # "OK"
    THEN /\ Return(w, Response(op, req, existing.code, NewMessage,
                               registered, TRUE, stale, {}))
         /\ UNCHANGED <<tx, tables, crashed>>
    ELSE
    LET unpacked == existing.value
        rowType == existing.row.data.typeUrl
        updatedResource == updaterFunc(op, req, unpacked, now)
        d == MessageDescriptor(t)
    IN
    IF ~updatedResource.ok
    THEN /\ Return(w, Response(op, req, "Unknown", NewMessage,
                               registered, TRUE, stale, {}))
         /\ UNCHANGED <<tx, tables, crashed>>
    ELSE IF ForeignFieldDescriptor(op, t, rowType)
    THEN /\ Return(w, Response(op, req, "Unavailable", NewMessage,
                               registered, TRUE, stale, {}))
         /\ crashed' = TRUE
         /\ UNCHANGED <<tx, tables>>
    ELSE IF updatesConflict(rowType, unpacked, updatedResource.msg)
    THEN /\ Return(w, Response(op, req, "Aborted", NewMessage,
                               registered, TRUE, stale, {}))
         /\ tables' = [tables EXCEPT ![getResourceTableName(d)] =
                ExecUpdate(@, UpdateStatement(d,
                    [updatedResource.msg EXCEPT !.update_time = now]))]
         /\ UNCHANGED <<tx, crashed>>
    ELSE
    /\ pc' = [pc EXCEPT ![w] = "pending"]
    /\ tx' = [tx EXCEPT ![w] =
            [Transaction(op, req, "update", getResourceTableName(d), n,
                         NoRow, unpacked, stale)
                EXCEPT !.at = now]]
    /\ res' = [res EXCEPT ![w] = NoResponse]
    /\ UNCHANGED <<tables, crashed>>

\* atomicUpdateResource up to the return of its SELECT, with the outcomes
\* that need no further wait: the descriptor lookup, BeginTx, the read of
\* the existing row, the error of the updater, the panic of a foreign field
\* descriptor and the conflict check, none of which depends on the clock.
\* A panic in a handler ends the process: the server installs no recovery.
\* Otherwise the handler holds the row it read and the time of the read.
atomicUpdateStart(w, op, req, n, t) ==
    LET registered == IsRegistered(resources, t)
        existing == getResource(resources, tables, t, n)
        stale == op = "Update" /\ req.resource.msg.etag \in staleTags[<<t, n>>]
    IN
    IF ~registered
    THEN /\ Return(w, Response(op, req, "Unimplemented", NewMessage,
                               registered, FALSE, stale, {}))
         /\ UNCHANGED <<tx, tables, crashed>>
    ELSE IF existing.code # "OK"
    THEN /\ Return(w, Response(op, req, existing.code, NewMessage,
                               registered, TRUE, stale, {}))
         /\ UNCHANGED <<tx, tables, crashed>>
    ELSE
    LET unpacked == existing.value
        rowType == existing.row.data.typeUrl
        updatedResource == updaterFunc(op, req, unpacked, now)
        d == MessageDescriptor(t)
    IN
    IF ~updatedResource.ok
    THEN /\ Return(w, Response(op, req, "Unknown", NewMessage,
                               registered, TRUE, stale, {}))
         /\ UNCHANGED <<tx, tables, crashed>>
    ELSE IF ForeignFieldDescriptor(op, t, rowType)
    THEN /\ Return(w, Response(op, req, "Unavailable", NewMessage,
                               registered, TRUE, stale, {}))
         /\ crashed' = TRUE
         /\ UNCHANGED <<tx, tables>>
    ELSE IF updatesConflict(rowType, unpacked, updatedResource.msg)
    THEN /\ Return(w, Response(op, req, "Aborted", NewMessage,
                               registered, TRUE, stale, {}))
         /\ UNCHANGED <<tx, tables, crashed>>
    ELSE
    /\ pc' = [pc EXCEPT ![w] = "pending"]
    /\ tx' = [tx EXCEPT ![w] =
            [Transaction(op, req, "update", getResourceTableName(d), n,
                         NoRow, unpacked, stale)
                EXCEPT !.at = now]]
    /\ res' = [res EXCEPT ![w] = NoResponse]
    /\ UNCHANGED <<tables, crashed>>

\* atomicUpdateResource from the updater to the Commit.  The clock has
\* been read after the SELECT returned and before the UPDATE is sent: by
\* the updater (t1) and then for update_time (t2).  The number of rows the
\* UPDATE affected is read and dropped.
atomicUpdateFinish(w) ==
    /\ pc[w] = "pending"
    /\ ~crashed
    /\ tx[w].kind = "update"
    /\ LET t == tx[w]
           d == MessageDescriptor(t.req.typ)
           matched == SelectByName(tables, t.table, t.name)
       IN
       IF SerializationFailure(w)
       THEN /\ Return(w, Response(t.op, t.req, "Unknown", NewMessage,
                                  TRUE, TRUE, t.stale, t.overlap))
            /\ tx' = [tx EXCEPT ![w] = NoTx]
            /\ UNCHANGED <<tables, staleTags, history>>
       ELSE
       \E t2 \in t.at..now : \E t1 \in UpdaterTimes(t.op, t.at, t2) :
       LET updatedResource == updaterFunc(t.op, t.req, t.ret, t1).msg
           stamped == [updatedResource EXCEPT !.update_time = t2]
           stmt == UpdateStatement(d, stamped)
       IN
            /\ tables' = [tables EXCEPT ![t.table] = ExecUpdate(@, stmt)]
            /\ tx' = IF matched # {}
                     THEN Invalidate(w, t.table, t.name, t.op)
                     ELSE [tx EXCEPT ![w] = NoTx]
            /\ staleTags' =
                 IF t.op = "Update" /\ HasEtag(t.req.typ) /\ matched # {}
                 THEN [staleTags EXCEPT ![<<t.req.typ, t.name>>] =
                          @ \cup {r.data.msg.etag : r \in matched}]
                 ELSE staleTags
            /\ history' =
                 IF matched # {}
                 THEN [history EXCEPT ![<<t.req.typ, t.name>>] = Committed(@, t.op, stamped)]
                 ELSE history
            /\ Return(w, Response(t.op, t.req, "OK", stamped,
                                  TRUE, FALSE, t.stale, t.overlap))
    /\ UNCHANGED <<resources, isolation, now, nextUid, regRes, registering, crashed>>

----------------
(* UpdateResource, DeleteResource, UndeleteResource *)

UpdateResourceStart(w, U) ==
    /\ pc[w] = "idle"
    /\ ~crashed
    /\ \E resource \in CallerResources(U), mask \in U.masks :
        LET t == resource.typeUrl
            req == Request(t, resource.msg.name, "", resource, mask, 0)
        IN
        IF ~resource.ok
        THEN \* resourceName: the resource does not unmarshal
             /\ Return(w, Response("Update", req, "Unknown", NewMessage,
                                   IsRegistered(resources, t), FALSE, FALSE, {}))
             /\ UNCHANGED <<tx, tables, crashed>>
        ELSE atomicUpdateStart(w, "Update", req, resource.msg.name, t)
    /\ UNCHANGED <<resources, isolation, now, nextUid, staleTags, history, regRes, registering>>

DeleteResourceStart(w, U) ==
    /\ pc[w] = "idle"
    /\ ~crashed
    /\ \E t \in U.types, n \in U.names :
        atomicUpdateStart(w, "Delete", Request(t, n, "", NoAny, {}, 0), n, t)
    /\ UNCHANGED <<resources, isolation, now, nextUid, staleTags, history, regRes, registering>>

UndeleteResourceStart(w, U) ==
    /\ pc[w] = "idle"
    /\ ~crashed
    /\ \E t \in U.types, n \in U.names :
        atomicUpdateStart(w, "Undelete", Request(t, n, "", NoAny, {}, 0), n, t)
    /\ UNCHANGED <<resources, isolation, now, nextUid, staleTags, history, regRes, registering>>

----------------------------------------------------------------------------
(* PurgeResource *)

\* A DELETE without its WHERE clause.
ExecDeleteAll(rows, n) == {}

\* DELETE FROM <table> WHERE name = $1
ExecDelete(rows, n) == {r \in rows : r.name # n}

\* BeginTx, the DELETE, Commit.  The number of rows deleted is read and
\* dropped.
PurgeResource(w, U) ==
    /\ pc[w] = "idle"
    /\ ~crashed
    /\ \E t \in U.types, n \in U.names :
        LET req == Request(t, n, "", NoAny, {}, 0)
            registered == IsRegistered(resources, t)
            d == GetResourceDescriptor(resources, t)
            tbl == getResourceTableName(d)
            matched == SelectByName(tables, tbl, n)
        IN
        IF ~registered
        THEN /\ Return(w, Response("Purge", req, "Unimplemented", NewMessage,
                                   registered, FALSE, FALSE, {}))
             /\ UNCHANGED <<tables, tx, staleTags, history>>
        ELSE /\ tables' = [tables EXCEPT ![tbl] = ExecDelete(@, n)]
             /\ tx' = IF matched # {} THEN Invalidate(w, tbl, n, "Purge") ELSE tx
             /\ staleTags' = [staleTags EXCEPT ![<<t, n>>] = {}]
             /\ history' = [history EXCEPT ![<<t, n>>] = Committed(@, "Purge", NewMessage)]
             /\ Return(w, Response("Purge", req, "OK", NewMessage,
                                   registered, FALSE, FALSE, {}))
    /\ UNCHANGED <<resources, isolation, now, nextUid, regRes, registering, crashed>>

----------------------------------------------------------------------------
(* ListResources *)

DefaultPageSize == 50
PageSizes == {0, 1}

\* The columns the List query selects and the destinations scanResource
\* scans a row into.
ListColumns == <<"uid", "name", "parent", "create_time", "update_time", "data">>
ScanDestinations ==
    <<"uid", "name", "parent", "createTime", "updateTime", "deleteTime", "data">>

\* SELECT ... WHERE parent = $1 LIMIT n: any n of the matching rows.
SelectByParent(tbls, tbl, parent, limit) ==
    LET matching == {r \in tbls[tbl] : r.parent = parent} IN
    { page \in SUBSET matching :
        Cardinality(page) = IF Cardinality(matching) < limit
                            THEN Cardinality(matching) ELSE limit }

\* The response is built from the scanned resources alone: next_page_token
\* keeps its zero value.
NextPageToken(page, limit) == ""

ListResources(w, U) ==
    /\ pc[w] = "idle"
    /\ ~crashed
    /\ \E t \in U.types, parent \in U.parents, pageSize \in PageSizes :
        LET req == Request(t, "", parent, NoAny, {}, pageSize)
            registered == IsRegistered(resources, t)
            limit == IF pageSize = 0 THEN DefaultPageSize ELSE pageSize
        IN
        IF ~registered
        THEN Return(w, Response("List", req, "Unimplemented", NewMessage,
                                registered, FALSE, FALSE, {}))
        ELSE \E page \in SelectByParent(tables, getResourceTableName(resources[t]),
                                        parent, limit) :
             \* rows.Scan fails on the first row when the number of columns
             \* differs from the number of destinations
             IF page # {} /\ Len(ListColumns) # Len(ScanDestinations)
             THEN Return(w, Response("List", req, "Unknown", NewMessage,
                                     registered, FALSE, FALSE, {}))
             ELSE Return(w, [Response("List", req, "OK", NewMessage,
                                      registered, FALSE, FALSE, {})
                             EXCEPT !.listed = {scanResource(r) : r \in page},
                                    !.nextPageToken = NextPageToken(page, limit)])
    /\ UNCHANGED <<resources, tables, isolation, now, nextUid, tx, staleTags, history, regRes, registering, crashed>>

----------------------------------------------------------------------------
(* CreateResourceDescriptor *)

\* A registration that skips the check for the google.api.resource annotation.
CreateResourceDescriptorUnchecked(t) ==
    LET d == MessageDescriptor(t)
        tbl == getResourceTableName(d)
    IN
    /\ ~crashed
    /\ tables' = IF tbl \in DOMAIN tables THEN tables ELSE tables @@ (tbl :> {})
    /\ resources' = [x \in DOMAIN resources \cup {t} |-> IF x = t THEN d ELSE resources[x]]
    /\ regRes' = [typ |-> t, ok |-> TRUE, again |-> IsRegistered(resources, t)]
    /\ UNCHANGED <<isolation, now, nextUid, pc, tx, res, staleTags, history,
                 registering, crashed>>

\* A registration that creates its table anew each time (DROP TABLE, CREATE
\* TABLE).
CreateResourceDescriptorFresh(t) ==
    LET d == MessageDescriptor(t)
        tbl == getResourceTableName(d)
    IN
    /\ ~crashed
    /\ IF ~d.hasResource
       THEN /\ regRes' = [typ |-> t, ok |-> FALSE, again |-> IsRegistered(resources, t)]
            /\ UNCHANGED <<resources, tables>>
       ELSE /\ tables' = [x \in DOMAIN tables \cup {tbl} |->
                             IF x = tbl THEN {} ELSE tables[x]]
            /\ resources' = [x \in DOMAIN resources \cup {t} |-> IF x = t THEN d ELSE resources[x]]
            /\ regRes' = [typ |-> t, ok |-> TRUE, again |-> IsRegistered(resources, t)]
    /\ UNCHANGED <<isolation, now, nextUid, pc, tx, res, staleTags, history,
                 registering, crashed>>

\* Rejects a message without the google.api.resource annotation; else
\* CREATE TABLE IF NOT EXISTS and the descriptor is put into the map.
\* regRes keeps the type, whether the call returned nil, and whether the
\* type was registered when the call was made.
CreateResourceDescriptor(t) ==
    LET d == MessageDescriptor(t)
        tbl == getResourceTableName(d)
    IN
    /\ ~crashed
    /\ IF ~d.hasResource
       THEN /\ regRes' = [typ |-> t, ok |-> FALSE, again |-> IsRegistered(resources, t)]
            /\ UNCHANGED <<resources, tables>>
       ELSE /\ tables' = IF tbl \in DOMAIN tables THEN tables ELSE tables @@ (tbl :> {})
            /\ resources' = [x \in DOMAIN resources \cup {t} |-> IF x = t THEN d ELSE resources[x]]
            /\ regRes' = [typ |-> t, ok |-> TRUE, again |-> IsRegistered(resources, t)]
    /\ UNCHANGED <<isolation, now, nextUid, pc, tx, res, staleTags, history,
                 registering, crashed>>

\* The goroutines that call CreateResourceDescriptor at the same time.
Registrars == {"g1", "g2"}

NotRegistering == [pc |-> "idle", typ |-> "", raced |-> FALSE]

\* Another goroutine is inside its assignment to the r.resources map.
MapBeingWritten(g) == \E h \in Registrars \ {g} : registering[h].pc = "writing"

\* CreateResourceDescriptor of goroutine g up to the map assignment: the
\* annotation check and CREATE TABLE IF NOT EXISTS.
RegistrationStart(g) ==
    /\ ~crashed
    /\ registering[g].pc \in {"idle", "done", "failed"}
    /\ \E t \in MessageTypes :
        LET d == MessageDescriptor(t)
            tbl == getResourceTableName(d)
        IN IF ~d.hasResource
           THEN /\ registering' = [registering EXCEPT ![g] =
                                       [pc |-> "failed", typ |-> t, raced |-> FALSE]]
                /\ UNCHANGED tables
           ELSE /\ tables' = IF tbl \in DOMAIN tables THEN tables ELSE tables @@ (tbl :> {})
                /\ registering' = [registering EXCEPT ![g] =
                                       [pc |-> "table", typ |-> t, raced |-> FALSE]]
    /\ UNCHANGED <<resources, isolation, now, nextUid, pc, tx, res, staleTags, history,
                   regRes, crashed>>

\* r.resources[name] = resource begins.  The map is a plain Go map and no
\* lock is held: when another goroutine is inside its own assignment the two
\* writes race.  The runtime may notice (fatal error: concurrent map writes)
\* or not.
MapAssignBegin(g) ==
    /\ ~crashed
    /\ registering[g].pc = "table"
    /\ IF MapBeingWritten(g)
       THEN \/ /\ crashed' = TRUE
               /\ UNCHANGED registering
            \/ /\ registering' =
                     [h \in Registrars |->
                        IF h = g THEN [registering[h] EXCEPT !.pc = "writing", !.raced = TRUE]
                        ELSE IF registering[h].pc = "writing"
                        THEN [registering[h] EXCEPT !.raced = TRUE]
                        ELSE registering[h]]
               /\ UNCHANGED crashed
       ELSE /\ registering' = [registering EXCEPT ![g].pc = "writing"]
            /\ UNCHANGED crashed
    /\ UNCHANGED <<resources, tables, isolation, now, nextUid, pc, tx, res, staleTags,
                   history, regRes>>

\* The assignment ends and CreateResourceDescriptor returns nil.  An
\* assignment that raced with another one may have lost its entry.
MapAssignEnd(g) ==
    /\ ~crashed
    /\ registering[g].pc = "writing"
    /\ LET t == registering[g].typ
           stored == [x \in DOMAIN resources \cup {t} |->
                        IF x = t THEN MessageDescriptor(t) ELSE resources[x]]
       IN /\ resources' \in (IF registering[g].raced THEN {stored, resources} ELSE {stored})
          /\ regRes' = [typ |-> t, ok |-> TRUE, again |-> IsRegistered(resources, t)]
    /\ registering' = [registering EXCEPT ![g].pc = "done"]
    /\ UNCHANGED <<tables, isolation, now, nextUid, pc, tx, res, staleTags, history, crashed>>

\* A GetResource whose lookup in r.resources may run while a registration is
\* inside its map assignment.  Such a read races with the write: the runtime
\* may stop the process (fatal error: concurrent map read and map write), or
\* the lookup finds the entry, or it misses it.
GetResourceDuringRegistration(w, U) ==
    /\ ~crashed
    /\ pc[w] = "idle"
    /\ \E t \in U.types, n \in U.names :
        LET req == Request(t, n, "", NoAny, {}, 0)
            missed == [x \in DOMAIN resources \ {t} |-> resources[x]]
        IN IF \E g \in Registrars : registering[g].pc = "writing"
           THEN \/ /\ crashed' = TRUE
                   /\ UNCHANGED <<pc, res>>
                \/ /\ \E seen \in {resources, missed} :
                        LET got == getResource(seen, tables, t, n) IN
                        Return(w, Response("Get", req, got.code, got.value,
                                           IsRegistered(resources, t), FALSE, FALSE, {}))
                   /\ UNCHANGED crashed
           ELSE LET got == getResource(resources, tables, t, n) IN
                /\ Return(w, Response("Get", req, got.code, got.value,
                                      IsRegistered(resources, t), FALSE, FALSE, {}))
                /\ UNCHANGED crashed
    /\ UNCHANGED <<resources, tables, isolation, now, nextUid, tx, staleTags, history,
                   regRes, registering>>

\* Time passes, up to the time limit.
TickTo(limit) ==
    /\ now < limit
    /\ now' = now + 1
    /\ UNCHANGED <<resources, tables, isolation, nextUid, pc, tx, res, staleTags, history,
                   regRes, registering, crashed>>

Tick == TickTo(MaxTime)

\* The clock of the specifications that compare timestamps.
LongTick == TickTo(MaxLongTime)

----------------------------------------------------------------------------
(* The specifications *)

\* server.New(db): no registered resources, no tables.
Init(levels) ==
    /\ resources = <<>>
    /\ tables = <<>>
    /\ isolation \in levels
    /\ now = StartTime
    /\ nextUid = 1
    /\ pc = [w \in Workers |-> "idle"]
    /\ tx = [w \in Workers |-> NoTx]
    /\ res = [w \in Workers |-> NoResponse]
    /\ staleTags = [k \in AllMessageTypes \X Names |-> {}]
    /\ history = [k \in AllMessageTypes \X Names |-> NoHistory]
    /\ regRes = [typ |-> "", ok |-> TRUE, again |-> FALSE]
    /\ registering = [g \in Registrars |-> NotRegistering]
    /\ crashed = FALSE

\* The calls worker w makes, with requests drawn from the universe U.
Handler(w, U) ==
    \/ CreateResourceBegin(w, U)
    \/ CreateResourceStart(w, U)
    \/ CreateResourceFinish(w)
    \/ GetResource(w, U)
    \/ ListResources(w, U)
    \/ UpdateResourceStart(w, U)
    \/ DeleteResourceStart(w, U)
    \/ UndeleteResourceStart(w, U)
    \/ atomicUpdateFinish(w)
    \/ PurgeResource(w, U)

\* The calls of worker w that write.
Mutation(w, U) ==
    \/ CreateResourceBegin(w, U)
    \/ CreateResourceStart(w, U)
    \/ CreateResourceFinish(w)
    \/ UpdateResourceStart(w, U)
    \/ DeleteResourceStart(w, U)
    \/ UndeleteResourceStart(w, U)
    \/ atomicUpdateFinish(w)
    \/ PurgeResource(w, U)

\* A deployment that serves one resource type: the startup code registers
\* it (any number of times) and may try, at any time, to register the
\* unannotated message.
RegisterOne ==
    \E t \in MessageTypes :
        /\ DOMAIN resources \subseteq {t} \/ ~MessageDescriptor(t).hasResource
        /\ CreateResourceDescriptor(t)

\* The startup code of main.go: the registrations come before the server
\* accepts its first call.
RegisterAtStartup ==
    \E t \in MessageTypes :
        /\ resources = <<>>
        /\ CreateResourceDescriptor(t)

\* The requests of the sequential specification.
SeqUniverse ==
    [types        |-> {Account, Doc},
     names        |-> {"accounts/a"},
     parents      |-> {""},
     payloads     |-> {<<"Joe", "city">>, <<"Joe2", "">>},
     undecodable  |-> TRUE,
     etags        |-> Etags,
     outputOnly   |-> CallerOutputOnly,
     masks        |-> {{}, {"display_name"}},
     resourceIds  |-> {""}]

\* One client: the calls run one after the other.
Next ==
    \/ RegisterOne
    \/ Tick
    \/ Handler("w1", SeqUniverse)

\* With one client no two transactions overlap and the isolation level is
\* never consulted.
Spec == Init({"Serializable"}) /\ [][Next]_vars

\* The sequential specification with what the runtime guarantees: the clock
\* advances, and a handler that is waiting for its write and commit gets to
\* perform them.  No client is obliged to call, and the server has no
\* goroutine of its own besides the handlers.
SpecLive ==
    /\ Spec
    /\ WF_vars(Tick)
    /\ WF_vars(CreateResourceStart("w1", SeqUniverse))
    /\ WF_vars(CreateResourceFinish("w1"))
    /\ WF_vars(atomicUpdateFinish("w1"))

\* The requests of the specification that follows the errors of an atomic
\* update: a type with an etag field and a type without one, current and
\* stale etags, well-formed and malformed update masks.
MaskUniverse ==
    [types        |-> {Account, Doc},
     names        |-> {"accounts/a"},
     parents      |-> {""},
     payloads     |-> {<<"Joe", "city">>, <<"Joe2", "">>},
     undecodable  |-> FALSE,
     etags        |-> Etags,
     outputOnly   |-> {[uid |-> NoUid, delete_time |-> NullTime]},
     masks        |-> {{}, {"display_name"}, MalformedMask},
     resourceIds  |-> {""}]

\* One client whose updates can fail in the updater or in the conflict
\* check, while the clock runs.
NextMask ==
    \/ RegisterAtStartup
    \/ Tick
    \/ Handler("w1", MaskUniverse)

SpecMask == Init({"Serializable"}) /\ [][NextMask]_vars

\* The requests of the concurrent specification.
ConcUniverse ==
    [types        |-> {Account, Doc},
     names        |-> {"accounts/a"},
     parents      |-> {""},
     payloads     |-> {<<"Joe", "">>},
     undecodable  |-> FALSE,
     etags        |-> {"v1"},
     outputOnly   |-> {[uid |-> NoUid, delete_time |-> NullTime]},
     masks        |-> {{}},
     resourceIds  |-> {""}]

\* Two clients: each call runs on its own goroutine, and the steps of the
\* two interleave at the database round trips.
NextConc ==
    \/ RegisterAtStartup
    \/ Mutation("w1", ConcUniverse)
    \/ Mutation("w2", ConcUniverse)

SpecConc == Init(IsolationLevels) /\ [][NextConc]_vars

\* Two goroutines register types while a client reads: every step of a
\* registration interleaves with the steps of the other goroutines.
NextReg ==
    \/ \E g \in Registrars :
          \/ RegistrationStart(g)
          \/ MapAssignBegin(g)
          \/ MapAssignEnd(g)
    \/ GetResourceDuringRegistration("w1", ConcUniverse)

SpecReg == Init({"Serializable"}) /\ [][NextReg]_vars

\* The requests of the specification that follows the timestamps of one
\* resource: well-formed requests of one type, two payloads.
TimeUniverse ==
    [types        |-> {Account},
     names        |-> {"accounts/a"},
     parents      |-> {""},
     payloads     |-> {<<"Joe", "city">>, <<"Joe2", "">>},
     undecodable  |-> FALSE,
     etags        |-> {""},
     outputOnly   |-> {[uid |-> NoUid, delete_time |-> NullTime]},
     masks        |-> {{}},
     resourceIds  |-> {""}]

\* One client and a clock that runs longer.
NextTime ==
    \/ RegisterAtStartup
    \/ LongTick
    \/ Handler("w1", TimeUniverse)

SpecTime == Init({"Serializable"}) /\ [][NextTime]_vars

\* A deployment that serves several resource types.
RegisterAny ==
    \E t \in AllMessageTypes :
        /\ ~IsRegistered(resources, t)
        /\ CreateResourceDescriptor(t)

\* The requests of the specification with several types.
TypesUniverse ==
    [types        |-> {Account, Billing},
     names        |-> {"accounts/a"},
     parents      |-> {""},
     payloads     |-> {<<"Joe", "">>},
     undecodable  |-> FALSE,
     etags        |-> {""},
     outputOnly   |-> {[uid |-> NoUid, delete_time |-> NullTime]},
     masks        |-> {{}},
     resourceIds  |-> {""}]

\* One client working on resources of several registered types.
NextTypes ==
    \/ RegisterAny
    \/ Mutation("w1", TypesUniverse)
    \/ GetResource("w1", TypesUniverse)

SpecTypes == Init({"Serializable"}) /\ [][NextTypes]_vars

\* The Create, Update, Delete and Undelete calls of worker w.
Writer(w, U) ==
    \/ CreateResourceBegin(w, U)
    \/ CreateResourceStart(w, U)
    \/ CreateResourceFinish(w)
    \/ UpdateResourceStart(w, U)
    \/ DeleteResourceStart(w, U)
    \/ UndeleteResourceStart(w, U)
    \/ atomicUpdateFinish(w)

\* The requests of the two racing clients.
RaceUniverse ==
    [types        |-> {Account},
     names        |-> {"accounts/a"},
     parents      |-> {""},
     payloads     |-> {<<"Joe", "">>},
     undecodable  |-> FALSE,
     etags        |-> {""},
     outputOnly   |-> {[uid |-> NoUid, delete_time |-> NullTime]},
     masks        |-> {{}},
     resourceIds  |-> {""}]

\* Two clients write one resource while the clock runs: a handler reads the
\* clock between two waits for the database, and the other client commits
\* while it waits.
NextRace ==
    \/ RegisterAtStartup
    \/ LongTick
    \/ Writer("w1", RaceUniverse)
    \/ Writer("w2", RaceUniverse)

SpecRace == Init(IsolationLevels) /\ [][NextRace]_vars

\* The requests of the specification with several resources: two names
\* under two parents.
ManyUniverse ==
    [types        |-> {Account},
     names        |-> Names,
     parents      |-> Parents,
     payloads     |-> {<<"Joe", "">>},
     undecodable  |-> FALSE,
     etags        |-> {""},
     outputOnly   |-> {[uid |-> NoUid, delete_time |-> NullTime]},
     masks        |-> {{}},
     resourceIds  |-> ResourceIds]

\* One client working on several resources of one type.
NextMany ==
    \/ RegisterAtStartup
    \/ Handler("w1", ManyUniverse)

SpecMany == Init({"Serializable"}) /\ [][NextMany]_vars

----------------------------------------------------------------------------
(* Properties *)

\* The rows stored for type t under name n in the database tbls.
RowsIn(tbls, t, n) == SelectByName(tbls, getResourceTableName(MessageDescriptor(t)), n)

\* The fields of a resource of type t that are part of the payload.
PayloadFields(t) == MessageDescriptor(t).fields \ MessageDescriptor(t).outputOnly

\* The part of a resource name after its last "/".
FinalComponent(n) ==
    IF n = "accounts/a" THEN "a" ELSE IF n = "accounts/b" THEN "b" ELSE n

AtomicOps == {"Update", "Delete", "Undelete"}
AllOps == {"Create", "Get", "List", "Update", "Delete", "Undelete", "Purge"}

\* This step is the one in which a call of worker w returns.
Responded(w) == res'[w] # res[w] /\ res'[w].op # "None"

\* C1: a Get on the name right after a successful Create returns the value
\* the Create returned, with uid, create_time and update_time populated.
C1_GetReturnsCreated ==
    LET r == res["w1"]
        got == getResource(resources, tables, r.req.typ, r.req.name)
    IN (r.op = "Create" /\ r.code = "OK") =>
           /\ got.code = "OK"
           /\ got.value = r.value
           /\ r.value.uid # NoUid
           /\ r.value.create_time # NullTime
           /\ r.value.update_time # NullTime

\* C2: a Create whose name is the name of a row already stored for the type
\* fails with AlreadyExists and no stored row changes.
C2_CreateExisting ==
    [][ ( /\ Responded("w1")
          /\ res'["w1"].op = "Create"
          /\ RowsIn(tables, res'["w1"].req.typ, res'["w1"].req.name) # {} )
        => ( /\ res'["w1"].code = "AlreadyExists"
             /\ tables' = tables ) ]_vars

C2_Witness ==
    /\ res["w1"].op = "Create"
    /\ res["w1"].code = "AlreadyExists"
    /\ RowsIn(tables, res["w1"].req.typ, res["w1"].req.name) # {}

\* C3: for a type with an etag field, an Update that carries an etag the
\* row held before another Update committed fails with Aborted (Conflict)
\* and leaves the stored rows as they are.
C3_StaleEtagConflicts ==
    [][ ( /\ Responded("w1")
          /\ res'["w1"].op = "Update"
          /\ HasEtag(res'["w1"].req.typ)
          /\ res'["w1"].stale )
        => ( /\ res'["w1"].code = "Aborted"
             /\ tables' = tables ) ]_vars

\* C4: for a type with an etag field, the etag stored and returned after a
\* successful Update differs from the etag stored before it.
C4_UpdateRenewsEtag ==
    [][ ( /\ Responded("w1")
          /\ res'["w1"].op = "Update"
          /\ res'["w1"].code = "OK"
          /\ HasEtag(res'["w1"].req.typ) )
        => LET t == res'["w1"].req.typ
               n == res'["w1"].req.name
               before == {r.data.msg.etag : r \in RowsIn(tables, t, n)}
               after == {r.data.msg.etag : r \in RowsIn(tables', t, n)}
           IN /\ before \cap after = {}
              /\ after = {res'["w1"].value.etag} ]_vars

\* C5: for a type without an etag field, an Update, Delete or Undelete that
\* commits had no other Update, Delete or Undelete of the same name commit
\* between its read of the row and its own commit.
C5_AtMostOneCommits ==
    \A w \in Workers :
        ( /\ res[w].op \in AtomicOps
          /\ res[w].code = "OK"
          /\ ~HasEtag(res[w].req.typ) )
        => res[w].overlap \cap AtomicOps = {}

\* C6: for a type with an etag field, an Update that read the row before an
\* overlapping Update of the same name committed fails with Aborted
\* (Conflict).
C6_LoserConflicts ==
    \A w \in Workers :
        ( /\ res[w].op = "Update"
          /\ HasEtag(res[w].req.typ)
          /\ "Update" \in res[w].overlap )
        => res[w].code = "Aborted"

\* C7: after a successful Update with a non-empty mask every payload field
\* in the mask holds the incoming content and every payload field outside
\* the mask holds the content stored before, in the response and in a Get.
C7_MaskedUpdate ==
    [][ ( /\ Responded("w1")
          /\ res'["w1"].op = "Update"
          /\ res'["w1"].code = "OK"
          /\ res'["w1"].req.mask # {} )
        => LET r == res'["w1"]
               t == r.req.typ
               before == getResource(resources, tables, t, r.req.name).value
               got == getResource(resources', tables', t, r.req.name)
           IN \A f \in PayloadFields(t) :
                 LET expected == IF f \in r.req.mask
                                 THEN r.req.resource.msg[f]
                                 ELSE before[f]
                 IN /\ r.value[f] = expected
                    /\ got.code = "OK"
                    /\ got.value[f] = expected ]_vars

\* C8: after a successful Update without a mask, every payload field holds
\* the content the request gave it, in the response and in a Get of the
\* name.
C8_UnmaskedUpdate ==
    LET r == res["w1"]
        got == getResource(resources, tables, r.req.typ, r.req.name)
    IN (r.op = "Update" /\ r.code = "OK" /\ r.req.mask = {}) =>
           \A f \in PayloadFields(r.req.typ) :
               /\ r.value[f] = r.req.resource.msg[f]
               /\ got.code = "OK"
               /\ got.value[f] = r.req.resource.msg[f]

C8_Witness ==
    /\ res["w1"].op = "Update"
    /\ res["w1"].code = "OK"
    /\ res["w1"].req.mask = {}
    /\ res["w1"].req.resource.msg.display_name = "Joe2"
    /\ res["w1"].req.resource.msg.labels = ""

\* C9: for a registered type, a Get, Update, Delete or Undelete that names
\* a resource of which no row is stored fails with NotFound and no stored
\* row changes.
C9_MissingIsNotFound ==
    [][ ( /\ Responded("w1")
          /\ res'["w1"].op \in {"Get", "Update", "Delete", "Undelete"}
          /\ res'["w1"].registered
          /\ res'["w1"].req.name # ""
          /\ RowsIn(tables, res'["w1"].req.typ, res'["w1"].req.name) = {} )
        => ( /\ res'["w1"].code = "NotFound"
             /\ tables' = tables ) ]_vars

C9_Witness ==
    /\ res["w1"].op \in {"Update", "Delete", "Undelete"}
    /\ res["w1"].code = "NotFound"
    /\ res["w1"].registered
    /\ RowsIn(tables, res["w1"].req.typ, res["w1"].req.name) = {}

\* C10: every operation on a type that is not registered fails with
\* Unimplemented (UnknownType), whatever else the request holds, and no
\* stored row changes.
C10_UnregisteredIsUnimplemented ==
    [][ ( /\ Responded("w1")
          /\ res'["w1"].op \in AllOps
          /\ ~res'["w1"].registered )
        => ( /\ res'["w1"].code = "Unimplemented"
             /\ tables' = tables ) ]_vars

\* C11: from the commit of a Delete of an existing resource until an
\* Undelete, Update or Purge of the name commits, a Get of the name succeeds
\* and returns the delete_time the Delete returned, which is set.
C11_DeletedStaysReadable ==
    \A k \in DOMAIN history :
        history[k].deleteTime # NullTime =>
            LET got == getResource(resources, tables, k[1], k[2]) IN
            /\ got.code = "OK"
            /\ got.value.delete_time # NullTime
            /\ got.value.delete_time = history[k].deleteTime

\* C12: from the commit of an Undelete until a Delete of the name commits
\* (or a Purge removes the resource), a Get of the name succeeds and returns
\* no delete_time.
C12_UndeletedHasNoDeleteTime ==
    \A k \in DOMAIN history :
        history[k].undeleted =>
            LET got == getResource(resources, tables, k[1], k[2]) IN
            /\ got.code = "OK"
            /\ got.value.delete_time = NullTime

\* C13: from the commit of a Purge of a name until a Create of the name
\* succeeds, a Get of the name fails with NotFound, also when an Update,
\* Delete or Undelete that read the row before the Purge commits after it.
C13_PurgedStaysGone ==
    \A k \in DOMAIN history :
        history[k].purged =>
            getResource(resources, tables, k[1], k[2]).code = "NotFound"

C13_Witness ==
    \E w \in Workers :
        /\ res[w].op \in AtomicOps
        /\ res[w].code = "OK"
        /\ "Purge" \in res[w].overlap
        /\ history[<<res[w].req.typ, res[w].req.name>>].purged

\* C14: in every reachable state the table of a type holds at most one row
\* per resource name.
C14_NameUnique ==
    \A tbl \in DOMAIN tables :
        \A r1, r2 \in tables[tbl] : r1.name = r2.name => r1 = r2

C14_Witness ==
    \E w \in Workers :
        /\ res[w].op = "Create"
        /\ res[w].code # "OK"
        /\ "Create" \in res[w].overlap
        /\ isolation = "ReadCommitted"
        /\ Cardinality(RowsIn(tables, res[w].req.typ, res[w].req.name)) = 1

\* C15: of two Create calls for one name that both pass the existence check
\* before either inserts, the one that inserts second fails with
\* AlreadyExists.
C15_LosingCreateAlreadyExists ==
    \A w \in Workers :
        ( /\ res[w].op = "Create"
          /\ "Create" \in res[w].overlap )
        => res[w].code = "AlreadyExists"

\* C16: in every reachable state the payload stored in the data column of
\* any row holds no value for a field tagged OUTPUT_ONLY.
C16_PayloadHasNoOutputOnly ==
    \A t \in DOMAIN resources :
        \A r \in tables[getResourceTableName(resources[t])] :
            \A f \in resources[t].outputOnly : r.data.msg[f] = ZeroValue(f)

C16_Witness ==
    /\ res["w1"].op \in {"Create", "Update"}
    /\ res["w1"].code = "OK"
    /\ res["w1"].req.resource.msg.uid = ForgedUid
    /\ res["w1"].req.resource.msg.delete_time # NullTime
    /\ RowsIn(tables, res["w1"].req.typ, res["w1"].req.name) # {}

\* C17: the row a successful Create or Update leaves does not depend on the
\* values the caller sent for uid and delete_time: the same call with other
\* values for them, given the same uid and timestamps by the server, leaves
\* the same rows.
C17_OutputOnlyFromServer ==
    [][ ( /\ Responded("w1")
          /\ res'["w1"].op \in {"Create", "Update"}
          /\ res'["w1"].code = "OK" )
        => LET r == res'["w1"]
               t == r.req.typ
               d == MessageDescriptor(t)
               tbl == getResourceTableName(d)
           IN \A o \in CallerOutputOnly :
                LET sent == [r.req.resource.msg EXCEPT !.uid = o.uid,
                                                       !.delete_time = o.delete_time]
                    other == [r.req EXCEPT !.resource = AnyNew(t, sent)]
                    existing == getResource(resources, tables, t, r.req.name).value
                IN IF r.op = "Create"
                   THEN tables'[tbl] = tables[tbl] \cup
                            {InsertRow(d, StampCreated(sent, r.value.uid, r.value.create_time,
                                                    r.value.update_time),
                                       r.req.parent)}
                   ELSE tables'[tbl] = ExecUpdate(tables[tbl],
                            UpdateStatement(d, [updaterFunc("Update", other, existing, now).msg
                                                   EXCEPT !.update_time = r.value.update_time]))
      ]_vars

\* C18: a Create, Update, Delete, Undelete or Purge that returned an error
\* has left no database transaction open.
C18_NoTransactionLeftOpen ==
    \A w \in Workers :
        ( /\ res[w].op \in {"Create", "Update", "Delete", "Undelete", "Purge"}
          /\ res[w].code # "OK" )
        => ~res[w].txOpen

\* C19: an Update, Delete or Undelete that fails with NotFound, with the
\* error of its updater or with Aborted (Conflict) leaves every stored row
\* as it was, and the error of the updater, which is not a gRPC status,
\* reaches the caller as it is (code Unknown).
C19_FailedUpdateWritesNothing ==
    [][ ( /\ Responded("w1")
          /\ res'["w1"].op \in AtomicOps
          /\ res'["w1"].code # "OK" )
        => LET r == res'["w1"]
               existing == getResource(resources, tables, r.req.typ, r.req.name)
           IN /\ tables' = tables
              /\ r.code \in {"Unimplemented", "NotFound", "Unknown", "Aborted"}
              /\ r.code \in {"Unimplemented", "NotFound"} <=> r.code = existing.code
              /\ r.code = "Unknown" => r.op = "Update" /\ existing.code = "OK" ]_vars

\* An Update of a stored resource has failed with the error of its updater.
C19_Witness ==
    /\ res["w1"].op = "Update"
    /\ res["w1"].code = "Unknown"
    /\ res["w1"].txOpen
    /\ RowsIn(tables, res["w1"].req.typ, res["w1"].req.name) # {}

\* C20: the value a successful Update, Delete or Undelete returns equals
\* the value a Get of the name returns right after it.
C20_ReturnsStoredValue ==
    LET r == res["w1"]
        got == getResource(resources, tables, r.req.typ, r.req.name)
    IN (r.op \in AtomicOps /\ r.code = "OK") =>
           /\ got.code = "OK"
           /\ got.value = r.value

\* C21: no Update, Delete or Undelete, whatever the caller supplies, changes
\* the uid, name, parent or create_time of a stored row: in every step, a row
\* that is still stored afterwards (found by its uid or by its name) has the
\* four columns it had before.
C21_IdentityImmutable ==
    [][ \A tbl \in DOMAIN tables :
          \A r \in tables[tbl] :
            \A r2 \in tables'[tbl] :
              (r2.uid = r.uid \/ r2.name = r.name)
              => ( /\ r2.uid = r.uid
                   /\ r2.name = r.name
                   /\ r2.parent = r.parent
                   /\ r2.create_time = r.create_time ) ]_vars

C21_Witness ==
    /\ res["w1"].op = "Update"
    /\ res["w1"].code = "OK"
    /\ res["w1"].req.resource.msg.uid = ForgedUid
    /\ \E r \in RowsIn(tables, res["w1"].req.typ, res["w1"].req.name) :
          r.uid # ForgedUid /\ r.uid # NoUid

\* C22: registering a message type without the resource annotation fails,
\* creates no table and records no descriptor, and the type does not resolve
\* afterwards.
C22_UnannotatedRejected ==
    [][ (regRes' # regRes /\ ~MessageDescriptor(regRes'.typ).hasResource)
        => ( /\ ~regRes'.ok
             /\ tables' = tables
             /\ resources' = resources
             /\ ~IsRegistered(resources', regRes'.typ)
             /\ \A n \in Names :
                   getResource(resources', tables', regRes'.typ, n).code = "Unimplemented" )
      ]_vars

C22_Witness ==
    /\ regRes.typ = Plain
    /\ ~regRes.ok
    /\ \E n \in Names : RowsIn(tables, Account, n) # {}

\* C23: registering a type that is registered already succeeds, leaves every
\* stored row as it was and leaves the type resolvable.
C23_RegisterAgain ==
    [][ (regRes' # regRes /\ regRes'.again)
        => ( /\ regRes'.ok
             /\ tables' = tables
             /\ resources' = resources
             /\ IsRegistered(resources', regRes'.typ) ) ]_vars

C23_Witness ==
    /\ regRes.again
    /\ regRes.ok
    /\ \E n \in Names : RowsIn(tables, regRes.typ, n) # {}

\* C24: a Purge of a registered type succeeds whether the named resource is
\* active, soft-deleted or absent; afterwards no row has that name and every
\* other row is as it was.
C24_PurgeAlwaysSucceeds ==
    [][ ( /\ Responded("w1")
          /\ res'["w1"].op = "Purge"
          /\ IsRegistered(resources, res'["w1"].req.typ) )
        => LET r == res'["w1"]
               tbl == getResourceTableName(resources[r.req.typ])
           IN /\ r.code = "OK"
              /\ RowsIn(tables', r.req.typ, r.req.name) = {}
              /\ DOMAIN tables' = DOMAIN tables
              /\ \A x \in DOMAIN tables :
                    tables'[x] = IF x = tbl
                                 THEN {row \in tables[x] : row.name # r.req.name}
                                 ELSE tables[x] ]_vars

\* A Purge has returned and a resource of another name is still stored.
C24_Witness ==
    LET r == res["w1"] IN
    /\ r.op = "Purge"
    /\ r.code = "OK"
    /\ history[<<r.req.typ, r.req.name>>].purged
    /\ \E n \in Names \ {r.req.name} : RowsIn(tables, r.req.typ, n) # {}

\* C25: a List of a registered type succeeds and returns only resources
\* stored under the requested parent, at most page_size of them (50 when
\* page_size is 0), each as a Get of its name returns it; also when one or
\* more resources match.
C25_ListReturnsPage ==
    LET r == res["w1"] IN
    (r.op = "List" /\ r.registered) =>
        /\ r.code = "OK"
        /\ Cardinality(r.listed) <=
               (IF r.req.pageSize = 0 THEN DefaultPageSize ELSE r.req.pageSize)
        /\ \A v \in r.listed :
              \E row \in RowsIn(tables, r.req.typ, v.name) :
                  /\ row.parent = r.req.parent
                  /\ v = getResource(resources, tables, r.req.typ, v.name).value

C27_TargetByValue ==
    LET r == res["w1"] IN
    (r.op \in AllOps /\ r.code = "OK") =>
        r.target = IF r.op \in {"Get", "Delete", "Undelete", "Purge"} THEN r.req.name
                   ELSE IF r.req.parent # "" THEN r.req.parent
                   ELSE IF r.op \in {"Create", "Update"} THEN r.req.resource.msg.name
                   ELSE ""

\* C27 (amended): the interceptor picks the target by the fields the request
\* message defines: the name for Get, Delete, Undelete and Purge, the parent
\* (empty or not) for Create and List, the name of the embedded resource for
\* Update.
C27_TargetByField ==
    LET r == res["w1"] IN
    (r.op \in AllOps /\ r.code = "OK") =>
        r.target = IF r.op \in {"Get", "Delete", "Undelete", "Purge"} THEN r.req.name
                   ELSE IF r.op \in {"Create", "List"} THEN r.req.parent
                   ELSE r.req.resource.msg.name

\* A Create with an empty parent has succeeded.
C27_Witness ==
    LET r == res["w1"] IN
    /\ r.op = "Create"
    /\ r.code = "OK"
    /\ r.req.parent = ""
    /\ r.req.resource.msg.name # ""
    /\ r.target = ""

\* C28: registrations of distinct types that run at the same time, and
\* registrations that run while calls resolve types, never corrupt the
\* registry: the process keeps running, a type whose registration has
\* returned resolves, and a call for a type that was registered when the
\* call was made is not answered with Unimplemented.
C28_RegistrySurvivesConcurrency ==
    /\ ~crashed
    /\ \A g \in Registrars :
          registering[g].pc = "done" => IsRegistered(resources, registering[g].typ)
    /\ (res["w1"].op = "Get" /\ res["w1"].registered) => res["w1"].code # "Unimplemented"

\* C29: the name of a resource created by a Create with a non-empty
\* resource_id has that resource_id as its final component.
C29_ResourceIdNamesResource ==
    LET r == res["w1"] IN
    (r.op = "Create" /\ r.code = "OK" /\ r.req.resourceId # "") =>
        /\ FinalComponent(r.value.name) = r.req.resourceId
        /\ \E row \in RowsIn(tables, r.req.typ, r.value.name) :
              FinalComponent(row.name) = r.req.resourceId

\* The resource of type t named n is stored and soft-deleted.
SoftDeleted(t, n) == \E row \in RowsIn(tables, t, n) : row.delete_time.Valid

\* The resource was soft-deleted by a Delete and not written since.
DeletedByCall(t, n) == SoftDeleted(t, n) /\ history[<<t, n>>].deleteTime # NullTime

\* C30: a soft-deleted resource does not stay soft-deleted for ever: unless
\* it is undeleted, the system removes it in the end, with or without a
\* Purge call.
C30_SoftDeletedEventuallyRemoved ==
    \A t \in SeqUniverse.types, n \in SeqUniverse.names :
        DeletedByCall(t, n) ~> ~SoftDeleted(t, n)

\* C31: an Update, Delete or Undelete that reaches the conflict check fails
\* with Aborted exactly when the type has an etag field and the etag of the
\* value the updater returned differs from the etag of the value read from
\* the row; else it commits.
C31_ConflictExactlyOnEtag ==
    [][ ( /\ Responded("w1")
          /\ res'["w1"].op \in AtomicOps
          /\ res'["w1"].code \in {"OK", "Aborted"} )
        => LET r == res'["w1"]
               existing == getResource(resources, tables, r.req.typ, r.req.name)
               updated == updaterFunc(r.op, r.req, existing.value, now)
           IN /\ existing.code = "OK"
              /\ updated.ok
              /\ (r.code = "Aborted") <=>
                    (HasEtag(r.req.typ) /\ existing.value.etag # updated.msg.etag)
              /\ (r.code = "Aborted") => tables' = tables ]_vars

\* An Update was refused whose etag is not the etag the row holds.
C31_Witness ==
    LET r == res["w1"] IN
    /\ r.op = "Update"
    /\ r.code = "Aborted"
    /\ \E row \in RowsIn(tables, r.req.typ, r.req.name) :
          row.data.msg.etag # r.req.resource.msg.etag

\* C32: a Delete of a resource that is soft-deleted already succeeds; the
\* delete_time it returns and stores is the time of this Delete (read from
\* the clock not before the previous write of the row and not after the
\* update_time stamp of this Delete), and the payload of the row is as
\* before.
C32_DeleteAgain ==
    [][ ( /\ Responded("w1")
          /\ res'["w1"].op = "Delete"
          /\ SoftDeleted(res'["w1"].req.typ, res'["w1"].req.name) )
        => LET r == res'["w1"]
               before == RowsIn(tables, r.req.typ, r.req.name)
               after == RowsIn(tables', r.req.typ, r.req.name)
           IN /\ r.code = "OK"
              /\ r.value.delete_time # NullTime
              /\ r.value.delete_time <= r.value.update_time
              /\ \A old \in before :
                    ParseRFC3339Nano(old.update_time) <= RoundToMicro(r.value.delete_time)
              /\ \A row \in after :
                    /\ row.delete_time = ValidString(TimestampColumn(
                                              FormatRFC3339Nano(r.value.delete_time)))
                    /\ \E old \in before : old.data = row.data
              /\ after # {} ]_vars

\* A second Delete in a row has committed, at a later time than the first.
C32_Witness ==
    LET r == res["w1"] IN
    /\ r.op = "Delete"
    /\ r.code = "OK"
    /\ history[<<r.req.typ, r.req.name>>].afterDelete
    /\ r.value.delete_time = MaxLongTime
    /\ SoftDeleted(r.req.typ, r.req.name)

\* C33: an Undelete of a stored resource that is not soft-deleted succeeds
\* and changes nothing of its row but update_time: delete_time stays NULL and
\* the payload is as before, so a second Undelete leaves the row the first
\* one left, except for update_time.
C33_UndeleteActive ==
    [][ ( /\ Responded("w1")
          /\ res'["w1"].op = "Undelete"
          /\ RowsIn(tables, res'["w1"].req.typ, res'["w1"].req.name) # {}
          /\ ~SoftDeleted(res'["w1"].req.typ, res'["w1"].req.name) )
        => LET r == res'["w1"]
               before == RowsIn(tables, r.req.typ, r.req.name)
               after == RowsIn(tables', r.req.typ, r.req.name)
           IN /\ r.code = "OK"
              /\ r.value.delete_time = NullTime
              /\ after # {}
              /\ \A row \in after :
                    /\ ~row.delete_time.Valid
                    /\ \E old \in before : row = [old EXCEPT !.update_time = row.update_time]
      ]_vars

\* An Undelete has committed that did not follow a Delete.
C33_Witness ==
    LET r == res["w1"] IN
    /\ r.op = "Undelete"
    /\ r.code = "OK"
    /\ ~history[<<r.req.typ, r.req.name>>].afterDelete
    /\ RowsIn(tables, r.req.typ, r.req.name) # {}

\* C34: after a successful Update, Delete or Undelete the update_time the
\* row stores equals the update_time the call returned, and is not earlier
\* than the update_time the row stored before.
C34_UpdateTimeStamped ==
    [][ ( /\ Responded("w1")
          /\ res'["w1"].op \in AtomicOps
          /\ res'["w1"].code = "OK" )
        => LET r == res'["w1"]
               before == RowsIn(tables, r.req.typ, r.req.name)
               after == RowsIn(tables', r.req.typ, r.req.name)
           IN \A row \in after :
                /\ ParseRFC3339Nano(row.update_time) = r.value.update_time
                /\ \A old \in before :
                      ParseRFC3339Nano(old.update_time) <= ParseRFC3339Nano(row.update_time)
      ]_vars

\* C35: a successful Update leaves the delete_time of the row as it was: the
\* same time for a soft-deleted resource, NULL for an active one.
C35_UpdateKeepsDeleteTime ==
    [][ ( /\ Responded("w1")
          /\ res'["w1"].op = "Update"
          /\ res'["w1"].code = "OK"
          /\ res'["w1"].req.resource.msg.delete_time = NullTime )
        => LET r == res'["w1"] IN
           \A old \in RowsIn(tables, r.req.typ, r.req.name) :
             \A row \in RowsIn(tables', r.req.typ, r.req.name) :
               row.delete_time = old.delete_time ]_vars

\* C36: a Create with the name of a soft-deleted resource fails with
\* AlreadyExists and changes no row, and a soft-deleted row leaves the table
\* only by a Purge.
C36_SoftDeletedNameReserved ==
    [][ /\ ( /\ Responded("w1")
             /\ res'["w1"].op = "Create"
             /\ SoftDeleted(res'["w1"].req.typ, res'["w1"].req.name) )
           => ( /\ res'["w1"].code = "AlreadyExists"
                /\ tables' = tables )
        /\ \A t \in DOMAIN resources, n \in Names :
             (SoftDeleted(t, n) /\ RowsIn(tables', t, n) = {})
             => (Responded("w1") /\ res'["w1"].op = "Purge" /\ res'["w1"].req.name = n)
      ]_vars

\* A Create with the name of a soft-deleted resource has been refused.
C36_Witness ==
    LET r == res["w1"] IN
    /\ r.op = "Create"
    /\ r.code = "AlreadyExists"
    /\ SoftDeleted(r.req.typ, r.req.name)

\* C37: when an Update, Delete or Undelete returns success, the row it names
\* is stored right after its commit and holds the update_time, delete_time
\* and payload the call returned (at the precision of the columns); so it
\* does not return success when a Purge of the name committed between its
\* read and its write.
C37_SuccessMeansWritten ==
    [][ \A w \in Workers :
          ( /\ Responded(w)
            /\ res'[w].op \in AtomicOps
            /\ res'[w].code = "OK" )
          => LET r == res'[w]
                 d == MessageDescriptor(r.req.typ)
                 after == RowsIn(tables', r.req.typ, r.req.name)
             IN /\ after # {}
                /\ "Purge" \notin r.overlap
                /\ \A row \in after :
                      /\ row.update_time =
                            TimestampColumn(FormatRFC3339Nano(r.value.update_time))
                      /\ row.delete_time.Valid = (r.value.delete_time # NullTime)
                      /\ row.data = MarshalData(d, r.value) ]_vars

\* C38: a Create, Update, Delete, Undelete or Purge on one registered type
\* changes nothing of what a Get returns for another registered type, and a
\* Create fails with AlreadyExists only for a name under which a resource of
\* its own type is stored.
C38_TypesIsolated ==
    [][ ( /\ Responded("w1")
          /\ res'["w1"].op \in {"Create", "Update", "Delete", "Undelete", "Purge"} )
        => LET r == res'["w1"] IN
           /\ \A B \in DOMAIN resources \ {r.req.typ} : \A n \in Names :
                 getResource(resources', tables', B, n) = getResource(resources, tables, B, n)
           /\ (r.op = "Create" /\ r.code = "AlreadyExists")
              => \E row \in RowsIn(tables, r.req.typ, r.req.name) :
                     row.data.typeUrl = r.req.typ ]_vars

\* C39: under any interleaving of Create, Update, Delete and Undelete calls
\* every stored row has an update_time that is not earlier than its
\* create_time, and no committed write makes the update_time of a row
\* earlier than it was.
C39_UpdateTimeMonotonic ==
    [][ \A tbl \in DOMAIN tables' :
          \A row \in tables'[tbl] :
            /\ ParseRFC3339Nano(row.create_time) <= ParseRFC3339Nano(row.update_time)
            /\ tbl \in DOMAIN tables =>
                 \A old \in tables[tbl] :
                   old.uid = row.uid =>
                     ParseRFC3339Nano(old.update_time) <= ParseRFC3339Nano(row.update_time)
      ]_vars

\* C40: Delete followed by Undelete is a round trip.  Each of the two leaves
\* what a Get returns as it was in every field but update_time and
\* delete_time, and after the Undelete delete_time is null again: the value
\* after both equals the value before both except for update_time.
C40_DeleteUndeleteRoundTrip ==
    [][ ( /\ Responded("w1")
          /\ res'["w1"].op \in {"Delete", "Undelete"}
          /\ res'["w1"].code = "OK" )
        => LET r == res'["w1"]
               before == getResource(resources, tables, r.req.typ, r.req.name)
               after == getResource(resources', tables', r.req.typ, r.req.name)
           IN /\ before.code = "OK"
              /\ after.code = "OK"
              /\ after.value = [before.value EXCEPT !.update_time = after.value.update_time,
                                                     !.delete_time = after.value.delete_time]
              /\ r.op = "Undelete" => after.value.delete_time = NullTime
              /\ r.op = "Delete" => after.value.delete_time # NullTime ]_vars

\* An Undelete has committed right after a Delete, on a resource with labels.
C40_Witness ==
    LET r == res["w1"] IN
    /\ r.op = "Undelete"
    /\ r.code = "OK"
    /\ history[<<r.req.typ, r.req.name>>].afterDelete
    /\ r.value.delete_time = NullTime
    /\ r.value.uid # NoUid
    /\ r.value.labels # ""

====
